---- MODULE Spec2Model ----
(***************************************************************************)
(* A model of the Migkit data-migration pipeline.                          *)
(*                                                                         *)
(*   Part 1  the phase registry and executor, src/src/framework.py        *)
(*           (class DataMigrationFramework).                               *)
(*   Part 2  the row-by-row clean/validate pass of                         *)
(*           src/src/data_migration.py (validate_and_clean_row and the     *)
(*           loop of transform_data_with_pandas) with the SourceRecord     *)
(*           model of src/src/validators.py.                               *)
(***************************************************************************)
EXTENDS Integers, Sequences, FiniteSets, TLC

\* ------------------------------------------------------------------ bounds

\* the number of register_phase calls a framework object receives
MaxRegs == 3
\* the number of attributes dir(module) lists in one discovery
MaxAttrs == 2
\* the number of rows of the extracted DataFrame
MaxRows == 2
\* the number of records of the batch handed to save_data_to_target
MaxBatch == 3
\* the wall-clock times at which a validator is called: 0..MaxClock
MaxClock == 3

VARIABLES
    phases,     \* self.phases: dict phase name -> registered object
    pc,         \* where run() is: "idle", "loop", "returned", "raised"
    idx,        \* run(): position of the for loop in predefined_order
    data,       \* run(): the local variable data
    calls,      \* the invocations the current run has made, in order
    result,     \* the value run() returned to its caller
    raised,     \* the exception run() left with
    regLog,     \* every argument register_phase was called with, in order
    lastOp,     \* the most recent operation on the framework and its input
    prev_run,   \* the run before the current one, on the same registry
    df,             \* transform_data_with_pandas: the DataFrame df, a sequence of rows
    tpc,            \* transform_data_with_pandas: where it is
    pos,            \* the number of rows df.iterrows() has yielded
    invalid_rows,   \* the list invalid_rows
    cleaned_rows,   \* the list cleaned_rows
    terr,           \* the exception transform_data_with_pandas left with
    row_log,        \* per row handled: what validate_and_clean_row did with it
    data_validation,    \* Config.features.get("data_validation", False)
    pre_drop,           \* transformed_data as validate_transformed_data saw it
    error_indices,      \* transformed_validation['error_indices']
    tout,               \* the frame transform_data_with_pandas returned
    transformed_data,   \* save_data_to_target: the records of its argument
    columns_complete,   \* whether the frame has column2 and column3_transformed
    dest_rejects,       \* the records (by n) whose INSERT the destination refuses
    lpc,                \* save_data_to_target: where it is
    bulk,               \* how the to_sql call ended: "none", "ok", "failed"
    valid_records,      \* the list valid_records
    load_errors,        \* the list load_errors
    session_ops,        \* what the session has executed and committed, in order
    written_bulk,       \* the records target_table holds through to_sql
    written_orm,        \* the records committed through the session
    failure,            \* where and why the session block raised
    outcome,            \* the dict save_data_to_target returned
    load_result,        \* what run() returned after the Load phase
    vrecord,    \* the record handed to SourceRecord, never modified
    vtrow,      \* the row handed to validate_transformed_row, never modified
    clock,      \* datetime.now()
    verdicts    \* the outcomes of the validations made so far, in order

fvars == <<phases, pc, idx, data, calls, result, raised, regLog, lastOp, prev_run>>
tail_vars == <<data_validation, pre_drop, error_indices, tout>>
tvars == <<df, tpc, pos, invalid_rows, cleaned_rows, terr, row_log, tail_vars>>
lvars == <<transformed_data, columns_complete, dest_rejects, lpc, bulk, valid_records,
           load_errors, session_ops, written_bulk, written_orm, failure, outcome,
           load_result>>
vvars == <<vrecord, vtrow, clock, verdicts>>
vars == <<fvars, tvars, lvars, vvars>>

\* ------------------------------------------------- Part 1: framework.py

EXTRACT == "Extract"
TRANSFORM == "Transform"
LOAD == "Load"

\* framework.py:33
predefined_order == <<EXTRACT, TRANSFORM, LOAD>>

\* Python's None, and the marker of "run() has returned nothing (yet)"
None == "None"
NoResult == "NoResult"

\* The objects a caller can hand to the framework.  extract, extract2,
\* transform and load are functions decorated with @phase; helper is an
\* undecorated function; tagged_obj is an object that has a phase attribute
\* but is not callable.
Candidates ==
    {"extract", "extract2", "transform", "load", "helper", "tagged_obj"}

\* callable(attr)
callable(c) == c \in {"extract", "extract2", "transform", "load", "helper"}

\* hasattr(func, "phase")
hasattr_phase(c) == c \in {"extract", "extract2", "transform", "load", "tagged_obj"}

\* func.phase, as set by the decorator phase(phase_enum)
phase_attr(c) ==
    CASE c \in {"extract", "extract2"} -> EXTRACT
      [] c \in {"transform", "tagged_obj"} -> TRANSFORM
      [] c = "load" -> LOAD
      [] OTHER -> None

\* What a phase unit can hand back: None, an empty batch, or batches.
Values == {None, "empty", "rows"}

\* Exceptions.  A unit raises one of UnitErrors; calling an object that is
\* not callable raises TypeError; run() itself raises ValueError naming the
\* phase.
NoError == [type |-> "none", arg |-> ""]
UnitErrors == {[type |-> "RuntimeError", arg |-> "unit"], [type |-> "TypeError", arg |-> "unit"]}
NotCallableError == [type |-> "TypeError", arg |-> "not callable"]

\* variant: the message names the last phase of the order, not the missing one
NotRegisteredErrorWrongPhase(phase_name) == [type |-> "ValueError", arg |-> LOAD]
\* framework.py:46  raise ValueError(f"Phase '{phase_name}' is not registered!")
NotRegisteredError(phase_name) == [type |-> "ValueError", arg |-> phase_name]

EmptyDict == [p \in {} |-> "extract"]

\* variant: an entry already present is kept (first registration wins)
register_phase_first_wins(ph, func) ==
    IF hasattr_phase(func) /\ phase_attr(func) \notin DOMAIN ph
    THEN [p \in DOMAIN ph \cup {phase_attr(func)} |->
            IF p = phase_attr(func) THEN func ELSE ph[p]]
    ELSE ph
\* framework.py:20-22  register_phase(self, func), as a function of the dict
register_phase(ph, func) ==
    IF hasattr_phase(func)
    THEN [p \in DOMAIN ph \cup {phase_attr(func)} |->
            IF p = phase_attr(func) THEN func ELSE ph[p]]
    ELSE ph

\* variant: the scan does not test callable(attr)
is_discovered_no_callable_check(attr) == hasattr_phase(attr)
\* framework.py:28  the candidates the scan passes on to register_phase
is_discovered(attr) == callable(attr) /\ hasattr_phase(attr)

\* framework.py:26  dir(module) lists the attribute names in alphabetical
\* order.  A module is the set of the objects it binds, each under its own
\* name, so the scan meets them in this order.
dir_order == <<"extract", "extract2", "helper", "load", "tagged_obj", "transform">>
in_module(module, c) == c \in module
dir(module) == SelectSeq(dir_order, LAMBDA c : in_module(module, c))

\* framework.py:24-29  register_phases_from_annotations(self, module), as a
\* function of the dict and of the attributes in dir() order
RECURSIVE register_phases_from_annotations(_, _)
register_phases_from_annotations(ph, attrs) ==
    IF attrs = <<>> THEN ph
    ELSE register_phases_from_annotations(
            IF is_discovered(Head(attrs)) THEN register_phase(ph, Head(attrs)) ELSE ph,
            Tail(attrs))

\* the register_phase calls one discovery makes
discovery_calls(module) == SelectSeq(dir(module), is_discovered)

\* variant: every unit is called with data, the first one with None
call_args_always_data(d) == <<d>>
\* framework.py:39-44  the arguments a unit is called with
call_args(d) == IF d = None THEN <<>> ELSE <<d>>

\* variant: the loop walks the list backwards
loop_phase_reversed(i) == predefined_order[4 - i]
\* variant: the loop starts at the second entry of the list
loop_phase_skips_extract(i) == predefined_order[IF i = 1 THEN 2 ELSE i]
\* framework.py:36  the phase the loop is at
loop_phase(i) == predefined_order[i]

\* variant: a phase counts as registered only if all three are (the whole
\* registry is validated before anything runs)
is_registered_all_up_front(ph, phase_name) == {EXTRACT, TRANSFORM, LOAD} \subseteq DOMAIN ph
\* framework.py:37  if phase_name in self.phases
is_registered(ph, phase_name) == phase_name \in DOMAIN ph

\* variant: run() wraps the unit's exception in a ValueError
propagated_wrapped(e) == [type |-> "ValueError", arg |-> e.arg]
\* framework.py:41-44  run() has no handler around the call: the exception
\* of the unit is the exception of run()
propagated(e) == e

\* variant: run() ends without a return statement
run_result_none(d) == None
\* framework.py:48  return data
run_result(d) == d

Modules == {m \in SUBSET Candidates : Cardinality(m) <= MaxAttrs}

NoInput == [op |-> "none", module |-> {}, before |-> EmptyDict]

\* no run has been made since the registry was last written
NoRun == [seen |-> FALSE, pc |-> "idle", units |-> <<>>]

\* framework.py:17-18  __init__
FrameworkInit ==
    /\ phases = EmptyDict
    /\ pc = "idle"
    /\ idx = 0
    /\ data = None
    /\ calls = <<>>
    /\ result = NoResult
    /\ raised = NoError
    /\ regLog = <<>>
    /\ lastOp = NoInput
    /\ prev_run = NoRun

\* No run is in progress.
RunIdle ==
    /\ pc' = "idle"
    /\ idx' = 0
    /\ data' = None
    /\ calls' = <<>>
    /\ result' = NoResult
    /\ raised' = NoError

\* framework.py:20-22  a call of register_phase(func)
RegisterPhase ==
    /\ pc = "idle"
    /\ Len(regLog) < MaxRegs
    /\ \E func \in Candidates :
        /\ phases' = register_phase(phases, func)
        /\ regLog' = Append(regLog, func)
        /\ lastOp' = [op |-> "register", module |-> {func}, before |-> phases]
    /\ prev_run' = NoRun
    /\ RunIdle

\* framework.py:24-29  a call of register_phases_from_annotations(module)
Discover ==
    /\ pc = "idle"
    /\ \E module \in Modules :
        /\ Len(regLog) + Len(discovery_calls(module)) <= MaxRegs
        /\ phases' = register_phases_from_annotations(phases, dir(module))
        /\ regLog' = regLog \o discovery_calls(module)
        /\ lastOp' = [op |-> "discover", module |-> module, before |-> phases]
    /\ prev_run' = NoRun
    /\ RunIdle

\* framework.py:31-34  run() is called
RunStart ==
    /\ pc = "idle"
    /\ pc' = "loop"
    /\ idx' = 1
    /\ data' = None
    /\ calls' = <<>>
    /\ result' = NoResult
    /\ raised' = NoError
    /\ lastOp' = [op |-> "run", module |-> {}, before |-> phases]
    /\ UNCHANGED <<phases, regLog, prev_run>>

\* framework.py:36-44  one iteration: the phase is registered, its unit is
\* called and returns
InvokeReturns ==
    /\ pc = "loop"
    /\ idx <= Len(predefined_order)
    /\ is_registered(phases, loop_phase(idx))
    /\ callable(phases[loop_phase(idx)])
    /\ \E v \in Values :
        /\ calls' = Append(calls, [phase |-> loop_phase(idx),
                                   unit |-> phases[loop_phase(idx)],
                                   args |-> call_args(data),
                                   ret |-> v,
                                   exc |-> NoError])
        /\ data' = v
    /\ idx' = idx + 1
    /\ UNCHANGED <<phases, pc, result, raised, regLog, lastOp, prev_run>>

\* framework.py:36-44  one iteration: the phase is registered, its unit is
\* called and raises (an object that is not callable always does)
InvokeRaises ==
    /\ pc = "loop"
    /\ idx <= Len(predefined_order)
    /\ is_registered(phases, loop_phase(idx))
    /\ \E e \in (IF callable(phases[loop_phase(idx)]) THEN UnitErrors ELSE {NotCallableError}) :
        /\ calls' = Append(calls, [phase |-> loop_phase(idx),
                                   unit |-> phases[loop_phase(idx)],
                                   args |-> call_args(data),
                                   ret |-> NoResult,
                                   exc |-> e])
        /\ raised' = propagated(e)
    /\ pc' = "raised"
    /\ UNCHANGED <<phases, idx, data, result, regLog, lastOp, prev_run>>

\* framework.py:45-46  one iteration: the phase is not registered
MissingPhase ==
    /\ pc = "loop"
    /\ idx <= Len(predefined_order)
    /\ ~is_registered(phases, loop_phase(idx))
    /\ raised' = NotRegisteredError(loop_phase(idx))
    /\ pc' = "raised"
    /\ UNCHANGED <<phases, idx, data, calls, result, regLog, lastOp, prev_run>>

\* framework.py:48  the loop is over
RunReturn ==
    /\ pc = "loop"
    /\ idx > Len(predefined_order)
    /\ result' = run_result(data)
    /\ pc' = "returned"
    /\ UNCHANGED <<phases, idx, data, calls, raised, regLog, lastOp, prev_run>>

\* framework.py:46,48  the caller has the outcome of run() and goes on; the
\* locals of run() are gone, the framework object stays as it is
RunOver ==
    /\ pc \in {"returned", "raised"}
    /\ RunIdle
    /\ prev_run' = [seen |-> TRUE, pc |-> pc,
                    units |-> [i \in 1..Len(calls) |->
                                [phase |-> calls[i].phase, unit |-> calls[i].unit]]]
    /\ UNCHANGED <<phases, regLog, lastOp>>

\* --------------------------------------- Part 1b: the root framework.py

\* src/framework.py:37  self.phases[phase_name]() : no argument, whatever
\* the phase before returned
root_call_args(d) == <<>>
\* src/framework.py:31-39  run() has no return statement
root_run_result(d) == None

\* src/framework.py:34-37  one iteration: the unit is called and returns;
\* its value is not kept
RootInvokeReturns ==
    /\ pc = "loop"
    /\ idx <= Len(predefined_order)
    /\ is_registered(phases, loop_phase(idx))
    /\ callable(phases[loop_phase(idx)])
    /\ \E v \in Values :
        calls' = Append(calls, [phase |-> loop_phase(idx),
                                unit |-> phases[loop_phase(idx)],
                                args |-> root_call_args(data),
                                ret |-> v,
                                exc |-> NoError])
    /\ idx' = idx + 1
    /\ UNCHANGED <<phases, pc, data, result, raised, regLog, lastOp, prev_run>>

\* src/framework.py:34-37  one iteration: the unit is called and raises
RootInvokeRaises ==
    /\ pc = "loop"
    /\ idx <= Len(predefined_order)
    /\ is_registered(phases, loop_phase(idx))
    /\ \E e \in (IF callable(phases[loop_phase(idx)]) THEN UnitErrors ELSE {NotCallableError}) :
        /\ calls' = Append(calls, [phase |-> loop_phase(idx),
                                   unit |-> phases[loop_phase(idx)],
                                   args |-> root_call_args(data),
                                   ret |-> NoResult,
                                   exc |-> e])
        /\ raised' = propagated(e)
    /\ pc' = "raised"
    /\ UNCHANGED <<phases, idx, data, result, regLog, lastOp, prev_run>>

\* src/framework.py:34-39  the loop is over and run() falls off its end
RootRunReturn ==
    /\ pc = "loop"
    /\ idx > Len(predefined_order)
    /\ result' = root_run_result(data)
    /\ pc' = "returned"
    /\ UNCHANGED <<phases, idx, data, calls, raised, regLog, lastOp, prev_run>>

\* ------------------------------------------- Part 2: the clean/validate pass

\* Cell values.  A cell is absent (the frame has no such column), null
\* (None / NaN, what pd.isna answers True for), a number, a string or a
\* timestamp.  Strings are the entries of a small table.
Absent == [t |-> "absent", v |-> 0]
Null == [t |-> "null", v |-> 0]
Num(n) == [t |-> "num", v |-> n]
Str(k) == [t |-> "str", v |-> k]
Time(k) == [t |-> "time", v |-> k]

\* the strings: 0 is "", 1 is "OK", 2 is "a@b", 3 is a string of 101
\* characters, 4 is "N/A"
S_EMPTY == Str(0).v
S_OK == Str(1).v
S_SPECIAL == Str(2).v
S_LONG == Str(3).v
S_NA == Str(4).v
str_len(k) == CASE k = 0 -> 0 [] k = 1 -> 2 [] k = 2 -> 3 [] k = 3 -> 101 [] OTHER -> 3
\* validators.py:20  re.search(r'[!@#$%^&*()_+=...]', v)
str_special(k) == k \in {2, 4}

\* datetime.now() at the time of the pass; Time(k) with k > Now is in the future
Now == 5

Columns == {"id", "column1", "column2", "column3", "created_at"}

\* 'k in cleaned_row'
has(row, k) == row[k] # Absent
\* pd.isna(cleaned_row[k])
isna(cell) == cell = Null

\* data_migration.py:129  the required-field rule
column1_missing(row) == has(row, "column1") /\ isna(row["column1"])

\* data_migration.py:134-136
clean_column2(row) ==
    IF has(row, "column2") /\ isna(row["column2"])
    THEN [row EXCEPT !["column2"] = Str(S_NA)]
    ELSE row

\* data_migration.py:138-147; comparing a string with 0 raises TypeError
column3_raises(row) == has(row, "column3") /\ row["column3"].t \notin {"null", "num"}
\* variant: the branch that caps at 1000 is missing
clean_column3_no_cap(row) ==
    IF ~has(row, "column3") THEN row
    ELSE IF isna(row["column3"]) THEN [row EXCEPT !["column3"] = Num(0)]
    ELSE IF row["column3"].v < 0 THEN [row EXCEPT !["column3"] = Num(-row["column3"].v)]
    ELSE row
\* data_migration.py:138-147  the column3 rule
clean_column3(row) ==
    IF ~has(row, "column3") THEN row
    ELSE IF isna(row["column3"]) THEN [row EXCEPT !["column3"] = Num(0)]
    ELSE IF row["column3"].v < 0 THEN [row EXCEPT !["column3"] = Num(-row["column3"].v)]
    ELSE IF row["column3"].v > 1000 THEN [row EXCEPT !["column3"] = Num(1000)]
    ELSE row

\* data_migration.py:125-147  the cleaning rules in their order
clean_rules(row) == clean_column3(clean_column2(row))

\* validators.py:11  id: int = Field(..., gt=0)
id_ok(cell) == cell.t = "num" /\ cell.v > 0
\* validators.py:12,17-22  column1: str, 1..100 characters, no special ones
column1_ok(cell) ==
    /\ cell.t = "str"
    /\ str_len(cell.v) >= 1
    /\ str_len(cell.v) <= 100
    /\ ~str_special(cell.v)
\* validators.py:13  column2: Optional[str], at most 200 characters
column2_ok(cell) == cell = Absent \/ (cell.t = "str" /\ str_len(cell.v) <= 200)
\* validators.py:14,24-29  column3: Optional[float] within 0..1000
column3_ok(cell) == cell = Absent \/ (cell.t = "num" /\ cell.v >= 0 /\ cell.v <= 1000)
\* variant: a timestamp is refused once it lies in the past
created_at_ok_at_refuses_past(cell, now) ==
    cell \in {Absent, Null} \/ (cell.t = "time" /\ cell.v >= now)
\* validators.py:31-37  check_created_at_not_future: v > datetime.now()
\* is refused, with now the time of the call
created_at_ok_at(cell, now) ==
    cell \in {Absent, Null} \/ (cell.t = "time" /\ cell.v <= now)
\* validators.py:15,31-37  created_at: Optional[datetime], not in the future
created_at_ok(cell) == created_at_ok_at(cell, Now)

\* validators.py:9-37  SourceRecord(**record_dict) constructs without raising
SourceRecord_ok(row) ==
    /\ id_ok(row["id"])
    /\ column1_ok(row["column1"])
    /\ column2_ok(row["column2"])
    /\ column3_ok(row["column3"])
    /\ created_at_ok(row["created_at"])

\* data_migration.py:151  the model is only constructed when both keys exist
validation_runs(row) == has(row, "id") /\ has(row, "column1")

\* data_migration.py:150-159  the try block ends in the except branch
validation_fails(row) == validation_runs(row) /\ ~SourceRecord_ok(row)

NoneRow == [k \in Columns |-> [t |-> "none", v |-> 0]]

\* variant: the row is returned as valid whatever the rule and the
\* validation found
validate_and_clean_row_keeps_rejected(row, inv, row_index) ==
    LET inv1 == IF column1_missing(row) THEN Append(inv, row_index) ELSE inv
        cleaned_row == clean_rules(row)
        inv2 == IF validation_fails(cleaned_row) THEN Append(inv1, row_index) ELSE inv1
    IN  [is_valid |-> TRUE,
         cleaned_row |-> cleaned_row,
         invalid_rows |-> inv2,
         cleaner_out |-> cleaned_row,
         validator_invoked |-> validation_runs(cleaned_row)]

\* data_migration.py:108-161  validate_and_clean_row(row, invalid_rows,
\* row_index): what it returns and what it has made of the list invalid_rows
validate_and_clean_row(row, inv, row_index) ==
    LET inv1 == IF column1_missing(row) THEN Append(inv, row_index) ELSE inv
        cleaned_row == clean_rules(row)
        inv2 == IF validation_fails(cleaned_row) THEN Append(inv1, row_index) ELSE inv1
        is_valid == ~column1_missing(row) /\ ~validation_fails(cleaned_row)
    IN  [is_valid |-> is_valid,
         cleaned_row |-> IF is_valid THEN cleaned_row ELSE NoneRow,
         invalid_rows |-> inv2,
         cleaner_out |-> cleaned_row,
         validator_invoked |-> validation_runs(cleaned_row)]

\* what the pass notes about the row with label i: the record as the
\* cleaning rules left it (line 147), whether SourceRecord was constructed
\* for it (line 154) and whether the row was appended to cleaned_rows
log_entry(i, r, accepted) ==
    [index |-> i,
     cleaner_out |-> r.cleaner_out,
     validator_invoked |-> r.validator_invoked,
     accepted |-> accepted]

\* The frames Extract hands over.  One base row and rows that differ from it
\* in the cells the rules and the validator look at.
BaseRow ==
    [k \in Columns |->
        CASE k = "id" -> Num(1)
          [] k = "column1" -> Str(S_OK)
          [] k = "column2" -> Str(S_OK)
          [] k = "column3" -> Num(5)
          [] OTHER -> Null]

FullRows ==
    {[BaseRow EXCEPT !["id"] = i, !["column1"] = c] :
        i \in {Null, Num(0), Num(1), Num(2)}, c \in {Null, Str(S_OK)}}
    \cup {[BaseRow EXCEPT !["column1"] = Str(k)] : k \in {S_EMPTY, S_SPECIAL, S_LONG}}
    \cup {[BaseRow EXCEPT !["column3"] = c] :
            c \in {Null, Num(-5000), Num(-5), Num(5000), Str(S_OK)}}
    \cup {[BaseRow EXCEPT !["column1"] = Null, !["column3"] = Num(-5)]}
    \cup {[BaseRow EXCEPT !["column2"] = Null]}
    \cup {[BaseRow EXCEPT !["created_at"] = Time(k)] : k \in {1, 9}}

\* the column sets a frame can have
ColumnSets ==
    {Columns, Columns \ {"id"}, Columns \ {"column1"}, Columns \ {"column3"}}

project(row, cols) == [k \in Columns |-> IF k \in cols THEN row[k] ELSE Absent]

Frames ==
    UNION {UNION {[1..n -> {project(r, cols) : r \in FullRows}] : n \in 0..MaxRows} :
            cols \in ColumnSets}

\* transform_data_with_pandas has not been called
TransformOff ==
    /\ df = <<>>
    /\ tpc = "off"
    /\ pos = 0
    /\ invalid_rows = <<>>
    /\ cleaned_rows = <<>>
    /\ terr = NoError
    /\ row_log = <<>>
    /\ data_validation = FALSE
    /\ pre_drop = <<>>
    /\ error_indices = <<>>
    /\ tout = <<>>

\* data_migration.py:164-181  transform_data_with_pandas(data_dict) is
\* called with a frame and has set up its two lists
TransformCalled ==
    /\ df \in Frames
    /\ tpc = "start"
    /\ pos = 0
    /\ invalid_rows = <<>>
    /\ cleaned_rows = <<>>
    /\ terr = NoError
    /\ row_log = <<>>
    /\ data_validation \in BOOLEAN
    /\ pre_drop = <<>>
    /\ error_indices = <<>>
    /\ tout = <<>>

\* data_migration.py:175-177  an empty frame is returned at once
EmptyFrame ==
    /\ tpc = "start"
    /\ df = <<>>
    /\ tpc' = "returned_empty"
    /\ UNCHANGED <<df, pos, invalid_rows, cleaned_rows, terr, row_log>>
    /\ UNCHANGED tail_vars

\* data_migration.py:183-186  one iteration of the loop; the frame has a
\* RangeIndex, so the label i of the row at position pos + 1 is pos
CleanRowAccepted ==
    /\ tpc \in {"start", "clean"}
    /\ pos < Len(df)
    /\ ~column3_raises(clean_column2(df[pos + 1]))
    /\ LET r == validate_and_clean_row(df[pos + 1], invalid_rows, pos)
       IN  /\ r.is_valid /\ r.cleaned_row # NoneRow
           /\ cleaned_rows' = Append(cleaned_rows, r.cleaned_row)
           /\ invalid_rows' = r.invalid_rows
           /\ row_log' = Append(row_log, log_entry(pos, r, TRUE))
    /\ pos' = pos + 1
    /\ tpc' = "clean"
    /\ UNCHANGED <<df, terr>>
    /\ UNCHANGED tail_vars

CleanRowRejected ==
    /\ tpc \in {"start", "clean"}
    /\ pos < Len(df)
    /\ ~column3_raises(clean_column2(df[pos + 1]))
    /\ LET r == validate_and_clean_row(df[pos + 1], invalid_rows, pos)
       IN  /\ ~(r.is_valid /\ r.cleaned_row # NoneRow)
           /\ invalid_rows' = r.invalid_rows
           /\ row_log' = Append(row_log, log_entry(pos, r, FALSE))
    /\ pos' = pos + 1
    /\ tpc' = "clean"
    /\ UNCHANGED <<df, cleaned_rows, terr>>
    /\ UNCHANGED tail_vars

\* data_migration.py:142  the comparison raises outside the try block: the
\* exception leaves validate_and_clean_row and transform_data_with_pandas;
\* the required-field rule of line 129-132 has already run
CleanRowRaises ==
    /\ tpc \in {"start", "clean"}
    /\ pos < Len(df)
    /\ column3_raises(clean_column2(df[pos + 1]))
    /\ invalid_rows' =
        IF column1_missing(df[pos + 1]) THEN Append(invalid_rows, pos) ELSE invalid_rows
    /\ terr' = [type |-> "TypeError", arg |-> "column3"]
    /\ tpc' = "raised"
    /\ UNCHANGED <<df, pos, cleaned_rows, row_log>>
    /\ UNCHANGED tail_vars

\* data_migration.py:183,189  the loop is over
CleanPassDone ==
    /\ tpc \in {"start", "clean"}
    /\ df # <<>>
    /\ pos = Len(df)
    /\ tpc' = "cleaned"
    /\ UNCHANGED <<df, pos, invalid_rows, cleaned_rows, terr, row_log>>
    /\ UNCHANGED tail_vars

\* --------------- Part 2b: transform_data_with_pandas after the clean pass

\* data_migration.py:239-242  the columns of the result this model follows
TargetColumns == {"id", "column1", "column2", "column3_transformed"}

\* data_migration.py:189-198  the frame the transformations work on: a new
\* frame of the cleaned rows when a row was rejected, whose index labels
\* are the labels the rows had in df (pd.DataFrame of a list of Series),
\* and otherwise df itself, as it came in.  origin tells which row of df an
\* entry stems from.
work_frame(frame, inv, cleaned, labels) ==
    IF inv # <<>>
    THEN [k \in 1..Len(cleaned) |->
            [label |-> labels[k], origin |-> labels[k], row |-> cleaned[k]]]
    ELSE [k \in 1..Len(frame) |-> [label |-> k - 1, origin |-> k - 1, row |-> frame[k]]]

\* data_migration.py:201-202  df['column3'] * 2; NaN stays NaN
column3_transformed(row) ==
    IF ~has(row, "column3") THEN Absent
    ELSE IF row["column3"].t = "num" THEN Num(row["column3"].v * 2)
    ELSE Null

\* data_migration.py:200-244  one row of transformed_data
transform_row(row) ==
    [k \in TargetColumns |->
        CASE k = "column2" ->
                IF has(row, "column2") /\ isna(row["column2"]) THEN Str(S_NA) ELSE row["column2"]
          [] k = "column3_transformed" -> column3_transformed(row)
          [] OTHER -> row[k]]

\* data_migration.py:200-244
transform_frame(work) ==
    [k \in 1..Len(work) |-> [work[k] EXCEPT !.row = transform_row(work[k].row)]]

\* validators.py:166-197  validate_transformed_row(row): the list errors
validate_transformed_row(row) ==
    LET e1 == IF row["id"].t # "num"
              THEN <<"Missing or invalid 'id' field">> ELSE <<>>
        e2 == IF row["column1"].t # "str"
              THEN <<"Missing or invalid 'column1' field">> ELSE <<>>
        c == row["column3_transformed"]
        e3 == IF c.t = "num" /\ (c.v < 0 \/ c.v > 2000)
              THEN <<"column3_transformed is out of valid range (0-2000)">>
              ELSE IF c.t \in {"str", "time"}
              THEN <<"column3_transformed is not a valid numeric value">>
              ELSE <<>>
        errors == e1 \o e2 \o e3
    IN  [valid |-> errors = <<>>, errors |-> errors]

\* validators.py:218-231  validate_transformed_data(df): the positions of
\* the records that are not valid, from position i on
RECURSIVE invalid_records(_, _)
invalid_records(records, i) ==
    IF i >= Len(records) THEN <<>>
    ELSE (IF validate_transformed_row(records[i + 1].row).valid THEN <<>> ELSE <<i>>)
            \o invalid_records(records, i + 1)

SeqToSet(list) == { list[k] : k \in 1..Len(list) }
Labels(frame) == { frame[k].label : k \in 1..Len(frame) }

\* data_migration.py:260  transformed_data.drop(error_indices): removes the
\* rows whose index label is listed, KeyError when a listed label is not
\* in the index
drop(frame, indices) ==
    IF ~(SeqToSet(indices) \subseteq Labels(frame))
    THEN [raises |-> TRUE, frame |-> <<>>]
    ELSE [raises |-> FALSE,
          frame |-> SelectSeq(frame, LAMBDA e : e.label \notin SeqToSet(indices))]

\* data_migration.py:260  reset_index(drop=True)
reset_index(frame) == [k \in 1..Len(frame) |-> [frame[k] EXCEPT !.label = k - 1]]

\* the labels of the rows in cleaned_rows: the name of each Series
cleaned_labels == [k \in 1..Len(SelectSeq(row_log, LAMBDA e : e.accepted)) |->
                    SelectSeq(row_log, LAMBDA e : e.accepted)[k].index]

\* data_migration.py:244  transformed_data before the validation
transformed_before_validation ==
    transform_frame(work_frame(df, invalid_rows, cleaned_rows, cleaned_labels))

\* data_migration.py:258  the removal is configured
removal_due(flag, indices) == flag /\ indices # <<>>

\* data_migration.py:189-198  every row was rejected: an empty frame is returned
TransformNoValidRows ==
    /\ tpc = "cleaned"
    /\ invalid_rows # <<>>
    /\ cleaned_rows = <<>>
    /\ tpc' = "returned_empty"
    /\ UNCHANGED <<df, pos, invalid_rows, cleaned_rows, terr, row_log>>
    /\ UNCHANGED tail_vars

\* data_migration.py:189-265  the transformations, the validation of the
\* result, the removal if configured, and the return
TransformReturns ==
    /\ tpc = "cleaned"
    /\ ~(invalid_rows # <<>> /\ cleaned_rows = <<>>)
    /\ LET td == transformed_before_validation
           indices == invalid_records(td, 0)
       IN  /\ pre_drop' = td
           /\ error_indices' = indices
           /\ IF removal_due(data_validation, indices)
              THEN /\ ~drop(td, indices).raises
                   /\ tout' = reset_index(drop(td, indices).frame)
              ELSE tout' = td
    /\ tpc' = "returned"
    /\ UNCHANGED <<df, pos, invalid_rows, cleaned_rows, terr, row_log, data_validation>>

\* data_migration.py:260  drop raises KeyError, which leaves
\* transform_data_with_pandas
TransformDropRaises ==
    /\ tpc = "cleaned"
    /\ ~(invalid_rows # <<>> /\ cleaned_rows = <<>>)
    /\ LET td == transformed_before_validation
           indices == invalid_records(td, 0)
       IN  /\ removal_due(data_validation, indices)
           /\ drop(td, indices).raises
           /\ pre_drop' = td
           /\ error_indices' = indices
    /\ terr' = [type |-> "KeyError", arg |-> "not found in axis"]
    /\ tpc' = "raised"
    /\ UNCHANGED <<df, pos, invalid_rows, cleaned_rows, row_log, data_validation, tout>>

\* ------------------------------ Part 2c: the validators, called repeatedly

\* validators.py:9-37  the fields of the record SourceRecord refuses when it
\* is constructed at wall-clock time now
SourceRecord_errors(row, now) ==
    (IF id_ok(row["id"]) THEN {} ELSE {"id"})
    \cup (IF column1_ok(row["column1"]) THEN {} ELSE {"column1"})
    \cup (IF column2_ok(row["column2"]) THEN {} ELSE {"column2"})
    \cup (IF column3_ok(row["column3"]) THEN {} ELSE {"column3"})
    \cup (IF created_at_ok_at(row["created_at"], now) THEN {} ELSE {"created_at"})

\* data_migration.py:150-159  the outcome of validating a record at time now
validate_source_record(row, now) ==
    [valid |-> SourceRecord_errors(row, now) = {}, errors |-> SourceRecord_errors(row, now)]

\* the records handed to SourceRecord: valid or not, with and without a
\* timestamp
ValidatorRecords ==
    {[BaseRow EXCEPT !["id"] = i, !["created_at"] = c] :
        i \in {Num(0), Num(1)},
        c \in {Null} \cup {Time(k) : k \in 0..(MaxClock + 1)}}

\* the rows handed to validate_transformed_row
TransformedRows ==
    {transform_row([BaseRow EXCEPT !["column3"] = c]) : c \in {Num(5), Num(5000), Null}}

ValidatorOff ==
    /\ vrecord = BaseRow
    /\ vtrow = transform_row(BaseRow)
    /\ clock = 0
    /\ verdicts = <<>>

ValidatorCalled ==
    /\ vrecord \in ValidatorRecords
    /\ vtrow \in TransformedRows
    /\ clock = 0
    /\ verdicts = <<>>

\* datetime.now() moves on
Tick ==
    /\ clock < MaxClock
    /\ clock' = clock + 1
    /\ UNCHANGED <<vrecord, vtrow, verdicts>>

\* data_migration.py:150-159  the record is validated, now
ValidateSource ==
    /\ Len(verdicts) < 2
    /\ verdicts' = Append(verdicts,
            [validator |-> "SourceRecord", at |-> clock,
             valid |-> validate_source_record(vrecord, clock).valid,
             errors |-> validate_source_record(vrecord, clock).errors])
    /\ UNCHANGED <<vrecord, vtrow, clock>>

\* validators.py:166-197  the transformed row is validated, now
ValidateTransformed ==
    /\ Len(verdicts) < 2
    /\ verdicts' = Append(verdicts,
            [validator |-> "validate_transformed_row", at |-> clock,
             valid |-> validate_transformed_row(vtrow).valid,
             errors |-> SeqToSet(validate_transformed_row(vtrow).errors)])
    /\ UNCHANGED <<vrecord, vtrow, clock>>

\* ------------------------- Part 3: data_migration.py save_data_to_target

\* record['id'] / record['column1'] of a transformed record, by what the
\* tests at lines 296 and 299 look at: whether the key is there and the
\* Python type of the value
IdTypes == {"int", "float"}
Column1Types == {"str", "NoneType"}
KeyAbsent == "absent"

\* transformed_data.to_dict(orient='records') (line 286): every record of a
\* frame has the frame's columns as keys, so a key is absent from all of
\* them or from none; n tells the records of a batch apart
LoadFramesOf(len, idTypes, c1Types) ==
    { [k \in 1..len |-> [n |-> k - 1, id |-> g[k][1], column1 |-> g[k][2]]] :
        g \in [1..len -> idTypes \X c1Types] }
LoadFrames ==
    UNION { LoadFramesOf(len, idTypes, c1Types) :
                len \in 0..MaxBatch,
                idTypes \in {IdTypes, {KeyAbsent}},
                c1Types \in {Column1Types, {KeyAbsent}} }

\* data_migration.py:296-301  the two tests on one record; "ok" when
\* neither raises
check_record_id_only(record) ==
    IF record.id # "int" THEN "Missing or invalid ID field" ELSE "ok"
check_record(record) ==
    IF record.id # "int" THEN "Missing or invalid ID field"
    ELSE IF record.column1 # "str" THEN "Missing or invalid column1 field"
    ELSE "ok"

\* variant: a record that fails a test is logged but not kept in load_errors
load_error_not_recorded(errors, i, record) == errors
\* data_migration.py:303-307  the except branch of the loop over records
load_error(errors, i, record) ==
    Append(errors, [index |-> i, error |-> check_record(record), record |-> record])

\* data_migration.py:289-307  the loop over enumerate(records), from
\* position i on; gives valid_records and load_errors
RECURSIVE check_records(_, _, _, _)
check_records(records, i, valid, errors) ==
    IF i >= Len(records) THEN [valid_records |-> valid, load_errors |-> errors]
    ELSE LET record == records[i + 1]
         IN  IF check_record(record) = "ok"
             THEN check_records(records, i + 1, Append(valid, record), errors)
             ELSE check_records(records, i + 1, valid, load_error(errors, i, record))

\* the dicts save_data_to_target returns; keys is the set of keys the dict
\* has, and a count the dict lacks is written 0
NoOutcome ==
    [keys |-> {}, success |-> FALSE, text |-> "",
     records_processed |-> 0, records_with_errors |-> 0, target_instances |-> 0]
\* variant: an empty batch is reported as loaded
empty_outcome_success ==
    [keys |-> {"success", "reason"}, success |-> TRUE, text |-> "No data to save",
     records_processed |-> 0, records_with_errors |-> 0, target_instances |-> 0]
\* data_migration.py:272-274
empty_outcome ==
    [keys |-> {"success", "reason"}, success |-> FALSE, text |-> "No data to save",
     records_processed |-> 0, records_with_errors |-> 0, target_instances |-> 0]
\* variant: the handler reports the load as done
orm_failure_outcome_success(e, valid, errors) ==
    [keys |-> {"success", "error", "records_processed", "records_with_errors"},
     success |-> TRUE, text |-> e,
     records_processed |-> Len(valid), records_with_errors |-> Len(errors),
     target_instances |-> 0]
\* data_migration.py:344-351  the except branch around the session block
orm_failure_outcome(e, valid, errors) ==
    [keys |-> {"success", "error", "records_processed", "records_with_errors"},
     success |-> FALSE, text |-> e,
     records_processed |-> Len(valid), records_with_errors |-> Len(errors),
     target_instances |-> 0]
\* data_migration.py:353-359
success_outcome(valid, errors) ==
    [keys |-> {"success", "records_processed", "records_with_errors",
               "target_instances", "detail_instances"},
     success |-> TRUE, text |-> "",
     records_processed |-> Len(valid), records_with_errors |-> Len(errors),
     target_instances |-> Len(valid)]

\* models.py:45-53  from_source reads record['column2'] and
\* record['column3_transformed']: KeyError when the frame lacks either
from_source_raises(complete, valid) == ~complete /\ valid # <<>>

\* the records among valid whose INSERT the destination refuses
refused(valid, rejects) == { k \in 1..Len(valid) : valid[k].n \in rejects }

NoFailure == [at |-> "none", cause |-> "none"]

LoadIdle ==
    /\ lpc = "off"
    /\ valid_records = <<>>
    /\ load_errors = <<>>
    /\ bulk = "none"
    /\ session_ops = <<>>
    /\ written_bulk = {}
    /\ written_orm = {}
    /\ failure = NoFailure
    /\ outcome = NoOutcome
    /\ load_result = NoOutcome

\* save_data_to_target is not in use
LoadOff ==
    /\ transformed_data = <<>>
    /\ columns_complete = TRUE
    /\ dest_rejects = {}
    /\ LoadIdle

\* save_data_to_target is called with any batch, against any destination
LoadCalled ==
    /\ transformed_data \in LoadFrames
    /\ columns_complete \in BOOLEAN
    /\ dest_rejects \in SUBSET (0..(Len(transformed_data) - 1))
    /\ LoadIdle

\* framework.py:44-48  run() invokes the Load unit with the batch
LoadInvoked ==
    /\ lpc = "off"
    /\ lpc' = "called"
    /\ UNCHANGED <<transformed_data, columns_complete, dest_rejects, valid_records,
                   load_errors, bulk, session_ops, written_bulk, written_orm,
                   failure, outcome, load_result>>

\* data_migration.py:272-274
LoadEmpty ==
    /\ lpc = "called"
    /\ transformed_data = <<>>
    /\ outcome' = empty_outcome
    /\ lpc' = "returned"
    /\ UNCHANGED <<transformed_data, columns_complete, dest_rejects, valid_records,
                   load_errors, bulk, session_ops, written_bulk, written_orm,
                   failure, load_result>>

\* data_migration.py:277-280  to_sql succeeds; control goes on to line 286
BulkWriteSucceeds ==
    /\ lpc = "called"
    /\ transformed_data # <<>>
    /\ bulk' = "ok"
    /\ written_bulk' = { transformed_data[k] : k \in 1..Len(transformed_data) }
    /\ lpc' = "bulk_done"
    /\ UNCHANGED <<transformed_data, columns_complete, dest_rejects, valid_records,
                   load_errors, session_ops, written_orm, failure, outcome,
                   load_result>>

\* data_migration.py:277-283  to_sql raises; the handler logs and goes on
BulkWriteRaises ==
    /\ lpc = "called"
    /\ transformed_data # <<>>
    /\ bulk' = "failed"
    /\ lpc' = "bulk_done"
    /\ UNCHANGED <<transformed_data, columns_complete, dest_rejects, valid_records,
                   load_errors, session_ops, written_bulk, written_orm, failure,
                   outcome, load_result>>

\* data_migration.py:286-307
CheckRecords ==
    /\ lpc = "bulk_done"
    /\ LET r == check_records(transformed_data, 0, <<>>, <<>>)
       IN  /\ valid_records' = r.valid_records
           /\ load_errors' = r.load_errors
    /\ lpc' = "checked"
    /\ UNCHANGED <<transformed_data, columns_complete, dest_rejects, bulk,
                   session_ops, written_bulk, written_orm, failure, outcome,
                   load_result>>

\* data_migration.py:315-318  the session opens, TRUNCATE runs and is committed
ClearSucceeds ==
    /\ lpc = "checked"
    /\ session_ops' = session_ops \o <<"TRUNCATE", "commit">>
    /\ lpc' = "cleared"
    /\ UNCHANGED <<transformed_data, columns_complete, dest_rejects, valid_records,
                   load_errors, bulk, written_bulk, written_orm, failure, outcome,
                   load_result>>

\* data_migration.py:315-318, 344-351  get_session, TRUNCATE or its commit raises
ClearRaises ==
    /\ lpc = "checked"
    /\ failure' = [at |-> "clear", cause |-> "destination"]
    /\ outcome' = orm_failure_outcome("destination", valid_records, load_errors)
    /\ lpc' = "returned"
    /\ UNCHANGED <<transformed_data, columns_complete, dest_rejects, valid_records,
                   load_errors, bulk, session_ops, written_bulk, written_orm,
                   load_result>>

\* data_migration.py:324-340, 353-359  every instance is built and the one
\* commit takes all of them
WriteSucceeds ==
    /\ lpc = "cleared"
    /\ ~from_source_raises(columns_complete, valid_records)
    /\ refused(valid_records, dest_rejects) = {}
    /\ session_ops' = session_ops \o <<"add_all", "commit">>
    /\ written_orm' = { valid_records[k] : k \in 1..Len(valid_records) }
    /\ outcome' = success_outcome(valid_records, load_errors)
    /\ lpc' = "returned"
    /\ UNCHANGED <<transformed_data, columns_complete, dest_rejects, valid_records,
                   load_errors, bulk, written_bulk, failure, load_result>>

\* data_migration.py:324-351  from_source raises KeyError, or the commit
\* raises because the destination refuses a record or cannot be reached;
\* leaving the with block discards what was added
WriteRaises ==
    /\ lpc = "cleared"
    /\ \E cause \in {"KeyError", "record", "destination"} :
        /\ cause = "KeyError" => from_source_raises(columns_complete, valid_records)
        /\ cause # "KeyError" => ~from_source_raises(columns_complete, valid_records)
        /\ cause = "record" => refused(valid_records, dest_rejects) # {}
        /\ failure' = [at |-> "write", cause |-> cause]
        /\ outcome' = orm_failure_outcome(cause, valid_records, load_errors)
    /\ lpc' = "returned"
    /\ UNCHANGED <<transformed_data, columns_complete, dest_rejects, valid_records,
                   load_errors, bulk, session_ops, written_bulk, written_orm,
                   load_result>>

\* framework.py:44-48  Load is the last phase: run() returns what it returned
LoadReturnsToRun ==
    /\ lpc = "returned"
    /\ load_result' = run_result(outcome)
    /\ lpc' = "run_returned"
    /\ UNCHANGED <<transformed_data, columns_complete, dest_rejects, valid_records,
                   load_errors, bulk, session_ops, written_bulk, written_orm,
                   failure, outcome>>

\* ------------------------------------------------------- specifications

\* the framework on its own: registration and runs with arbitrary units
Init == FrameworkInit /\ TransformOff /\ LoadOff /\ ValidatorOff

Next ==
    \/ RegisterPhase /\ UNCHANGED <<tvars, lvars, vvars>>
    \/ Discover /\ UNCHANGED <<tvars, lvars, vvars>>
    \/ RunStart /\ UNCHANGED <<tvars, lvars, vvars>>
    \/ InvokeReturns /\ UNCHANGED <<tvars, lvars, vvars>>
    \/ InvokeRaises /\ UNCHANGED <<tvars, lvars, vvars>>
    \/ MissingPhase /\ UNCHANGED <<tvars, lvars, vvars>>
    \/ RunReturn /\ UNCHANGED <<tvars, lvars, vvars>>
    \/ RunOver /\ UNCHANGED <<tvars, lvars, vvars>>

Spec == Init /\ [][Next]_vars

\* the framework of the root framework.py: the same registration, its own run()
NextRoot ==
    \/ RegisterPhase /\ UNCHANGED <<tvars, lvars, vvars>>
    \/ Discover /\ UNCHANGED <<tvars, lvars, vvars>>
    \/ RunStart /\ UNCHANGED <<tvars, lvars, vvars>>
    \/ RootInvokeReturns /\ UNCHANGED <<tvars, lvars, vvars>>
    \/ RootInvokeRaises /\ UNCHANGED <<tvars, lvars, vvars>>
    \/ MissingPhase /\ UNCHANGED <<tvars, lvars, vvars>>
    \/ RootRunReturn /\ UNCHANGED <<tvars, lvars, vvars>>
    \/ RunOver /\ UNCHANGED <<tvars, lvars, vvars>>

SpecRoot == Init /\ [][NextRoot]_vars

\* the clean/validate pass of transform_data_with_pandas over every batch
InitClassify == FrameworkInit /\ TransformCalled /\ LoadOff /\ ValidatorOff

NextClassify ==
    \/ EmptyFrame /\ UNCHANGED <<fvars, lvars, vvars>>
    \/ CleanRowAccepted /\ UNCHANGED <<fvars, lvars, vvars>>
    \/ CleanRowRejected /\ UNCHANGED <<fvars, lvars, vvars>>
    \/ CleanRowRaises /\ UNCHANGED <<fvars, lvars, vvars>>
    \/ CleanPassDone /\ UNCHANGED <<fvars, lvars, vvars>>
    \/ TransformNoValidRows /\ UNCHANGED <<fvars, lvars, vvars>>
    \/ TransformReturns /\ UNCHANGED <<fvars, lvars, vvars>>
    \/ TransformDropRaises /\ UNCHANGED <<fvars, lvars, vvars>>

SpecClassify == InitClassify /\ [][NextClassify]_vars

\* save_data_to_target as the Load phase of a run, over every batch and
\* every behaviour of the destination
InitLoad == FrameworkInit /\ TransformOff /\ LoadCalled /\ ValidatorOff

NextLoad ==
    \/ LoadInvoked /\ UNCHANGED <<fvars, tvars, vvars>>
    \/ LoadEmpty /\ UNCHANGED <<fvars, tvars, vvars>>
    \/ BulkWriteSucceeds /\ UNCHANGED <<fvars, tvars, vvars>>
    \/ BulkWriteRaises /\ UNCHANGED <<fvars, tvars, vvars>>
    \/ CheckRecords /\ UNCHANGED <<fvars, tvars, vvars>>
    \/ ClearSucceeds /\ UNCHANGED <<fvars, tvars, vvars>>
    \/ ClearRaises /\ UNCHANGED <<fvars, tvars, vvars>>
    \/ WriteSucceeds /\ UNCHANGED <<fvars, tvars, vvars>>
    \/ WriteRaises /\ UNCHANGED <<fvars, tvars, vvars>>
    \/ LoadReturnsToRun /\ UNCHANGED <<fvars, tvars, vvars>>

SpecLoad == InitLoad /\ [][NextLoad]_vars

\* the two validators called on an unmodified record while time passes
InitValidate == FrameworkInit /\ TransformOff /\ LoadOff /\ ValidatorCalled

NextValidate ==
    \/ Tick /\ UNCHANGED <<fvars, tvars, lvars>>
    \/ ValidateSource /\ UNCHANGED <<fvars, tvars, lvars>>
    \/ ValidateTransformed /\ UNCHANGED <<fvars, tvars, lvars>>

SpecValidate == InitValidate /\ [][NextValidate]_vars

\* ------------------------------------------- Part 1: properties of run()

PhaseNames == {EXTRACT, TRANSFORM, LOAD}
CallPhases == [i \in 1..Len(calls) |-> calls[i].phase]
AllReturned == \A i \in 1..Len(calls) : calls[i].exc = NoError
RunSeen == pc \in {"loop", "returned", "raised"}
\* position in Extract, Transform, Load of the first phase the registry lacks
FirstMissing ==
    CHOOSE m \in 1..4 :
        /\ \A j \in 1..(m - 1) : predefined_order[j] \in DOMAIN phases
        /\ m <= 3 => predefined_order[m] \notin DOMAIN phases

\* C1: whatever the order of the register_phase calls, a run invokes the
\* units in the order Extract, Transform, Load: the invocations made so far
\* are always a prefix of that order, and a run that returns has made
\* exactly the three of them, each once.
C1_ExecutionOrder ==
    /\ Len(calls) <= 3
    /\ \A i \in 1..Len(calls) :
        /\ calls[i].phase = <<"Extract", "Transform", "Load">>[i]
        /\ calls[i].unit = phases[calls[i].phase]
    /\ pc = "returned" => CallPhases = <<"Extract", "Transform", "Load">>

\* a run returned although Load was registered first and Extract last
C1_Witness ==
    /\ pc = "returned"
    /\ regLog = <<"load", "transform", "extract">>
    /\ CallPhases = <<"Extract", "Transform", "Load">>

\* C2: Extract is invoked with no argument, and Transform and Load are
\* invoked with exactly one argument, the value the preceding phase
\* returned, whatever that value is (None included).
C2_ValuePassing ==
    \A i \in 1..Len(calls) :
        IF calls[i].phase = EXTRACT
        THEN calls[i].args = <<>>
        ELSE i > 1 /\ calls[i].args = <<calls[i - 1].ret>>

\* C3: a run that returns hands its caller the value the Load unit
\* returned, unchanged.
C3_ReturnsLoadValue ==
    pc = "returned" =>
        /\ calls[Len(calls)].phase = LOAD
        /\ result = calls[Len(calls)].ret

\* Load returned None and run() returned None (not "nothing")
C3_Witness ==
    /\ pc = "returned"
    /\ Len(calls) = 3
    /\ calls[3].ret = None
    /\ result = None

\* C4: with a phase missing from the registry, run() never returns and
\* never invokes the first missing phase or a later one; unless a unit
\* invoked before the gap raised, it ends with the ValueError that names the
\* first missing phase; with Extract missing no unit is invoked at all and
\* the error names Extract.
C4_MissingPhaseError ==
    (RunSeen /\ DOMAIN phases # PhaseNames) =>
        /\ pc # "returned"
        /\ \A i \in 1..Len(calls) :
            \E j \in 1..(FirstMissing - 1) : calls[i].phase = predefined_order[j]
        /\ (pc = "raised" /\ AllReturned) =>
            raised = [type |-> "ValueError", arg |-> predefined_order[FirstMissing]]
        /\ EXTRACT \notin DOMAIN phases =>
            /\ calls = <<>>
            /\ pc = "raised" => raised = [type |-> "ValueError", arg |-> "Extract"]

\* only Transform and Load are registered and run() has failed
C4_Witness ==
    /\ DOMAIN phases = {TRANSFORM, LOAD}
    /\ pc = "raised"
    /\ raised = [type |-> "ValueError", arg |-> "Extract"]
    /\ calls = <<>>

\* C5 as stated: with any phase missing, run() invokes no unit at all,
\* the phases before the missing one included.
C5_NoPartialRun ==
    (RunSeen /\ DOMAIN phases # PhaseNames) => calls = <<>>

\* C5 as amended: run() does run partially.  With a phase missing, the
\* first missing phase and the later ones are never invoked, and a run that
\* fails without a unit having raised has invoked exactly the phases that
\* precede the first missing one, each once, in order.
C5_PartialRunUpToGap ==
    (RunSeen /\ DOMAIN phases # PhaseNames) =>
        /\ Len(calls) < FirstMissing
        /\ (pc = "raised" /\ AllReturned) =>
            /\ Len(calls) = FirstMissing - 1
            /\ \A i \in 1..Len(calls) : calls[i].phase = predefined_order[i]

\* Load is missing: Extract and Transform ran before the error
C5_Witness ==
    /\ DOMAIN phases = {EXTRACT, TRANSFORM}
    /\ pc = "raised"
    /\ raised.type = "ValueError"
    /\ CallPhases = <<"Extract", "Transform">>

\* C6: when a unit raises, that invocation is the last one of the run (no
\* later phase, no second attempt), run() leaves with the very same
\* exception, and it returns nothing.
C6_ErrorPropagates ==
    \A i \in 1..Len(calls) :
        calls[i].exc # NoError =>
            /\ i = Len(calls)
            /\ pc = "raised"
            /\ raised = calls[i].exc
            /\ result = NoResult

\* Transform raised after Extract returned
C6_Witness ==
    /\ Len(calls) = 2
    /\ calls[2].phase = TRANSFORM
    /\ calls[2].exc = [type |-> "RuntimeError", arg |-> "unit"]
    /\ pc = "raised"

\* ------------------------------------ Part 1: properties of registration

TaggedAt(p) == {i \in 1..Len(regLog) : hasattr_phase(regLog[i]) /\ phase_attr(regLog[i]) = p}
Latest(S) == CHOOSE i \in S : \A j \in S : j <= i

\* C7: the registry maps each phase to the object most recently passed to
\* register_phase with that tag, holds an entry for no other phase, and a
\* registration leaves the entries of the other phases as they were.
C7_LastRegistrationWins ==
    /\ DOMAIN phases = {p \in PhaseNames : TaggedAt(p) # {}}
    /\ \A p \in DOMAIN phases : phases[p] = regLog[Latest(TaggedAt(p))]
    /\ lastOp.op = "register" =>
        \A p \in PhaseNames :
            (\A func \in lastOp.module : ~hasattr_phase(func) \/ p # phase_attr(func)) =>
                /\ p \in DOMAIN phases <=> p \in DOMAIN lastOp.before
                /\ p \in DOMAIN phases => phases[p] = lastOp.before[p]

\* extract was overwritten by extract2 while transform stayed
C7_Witness ==
    /\ regLog = <<"extract", "transform", "extract2">>
    /\ lastOp.op = "register"
    /\ phases[EXTRACT] = "extract2"
    /\ phases[TRANSFORM] = "transform"

\* C8: after a discovery the registry holds, besides what it held before,
\* exactly the phases some callable candidate of the module is tagged
\* with, each mapped to such a candidate; a candidate that is untagged or
\* not callable adds or changes nothing.
C8_DiscoveryRegistersTagged ==
    lastOp.op = "discover" =>
        LET units(p) == {c \in lastOp.module :
                            callable(c) /\ hasattr_phase(c) /\ phase_attr(c) = p}
            tagged == {p \in PhaseNames : units(p) # {}}
        IN  /\ DOMAIN phases = DOMAIN lastOp.before \cup tagged
            /\ \A p \in tagged : phases[p] \in units(p)
            /\ \A p \in DOMAIN phases \ tagged : phases[p] = lastOp.before[p]

\* a module holding a tagged function and a tagged object that is not
\* callable: only the function's phase is registered
C8_Witness ==
    /\ lastOp.op = "discover"
    /\ lastOp.before = EmptyDict
    /\ lastOp.module = {"extract", "tagged_obj"}
    /\ DOMAIN phases = {EXTRACT}

\* ------------------------------ Part 2: properties of the clean/validate pass

\* C9: over the rows the pass has handled, accepted rows plus rejected
\* entries equal the number of rows; at the end of the pass, the number of
\* input rows.
C9_CountsAddUp ==
    tpc \in {"clean", "cleaned"} => Len(cleaned_rows) + Len(invalid_rows) = pos

\* C10: invalid_rows is strictly increasing, so no index is in it twice.
C10_RejectedStrictlyIncreasing ==
    \A a, b \in 1..Len(invalid_rows) : a < b => invalid_rows[a] < invalid_rows[b]

InputRow(e) == df[e.index + 1]
AcceptedLog == SelectSeq(row_log, LAMBDA e : e.accepted)
InList(x, list) == \E k \in 1..Len(list) : list[k] = x

\* C11: a row whose column1 is absent or null is rejected (its index is in
\* invalid_rows), and SourceRecord is never constructed for it.
C11_RequiredMissingRejected ==
    \A k \in 1..Len(row_log) :
        InputRow(row_log[k])["column1"] \in {Absent, Null} =>
            /\ ~row_log[k].accepted
            /\ InList(row_log[k].index, invalid_rows)
            /\ ~row_log[k].validator_invoked

\* C12: a negative column3 leaves the cleaning rules as its magnitude and a
\* column3 above 1000 leaves them as 1000, and a row that is accepted
\* carries that value in cleaned_rows.
C12_Column3Repaired ==
    /\ \A k \in 1..Len(row_log) :
        LET c == InputRow(row_log[k])["column3"]
            out == row_log[k].cleaner_out["column3"]
        IN  c.t = "num" =>
                /\ c.v < 0 => out = [t |-> "num", v |-> 0 - c.v]
                /\ c.v > 1000 => out = [t |-> "num", v |-> 1000]
    /\ Len(AcceptedLog) = Len(cleaned_rows)
    /\ \A k \in 1..Len(cleaned_rows) :
        LET c == InputRow(AcceptedLog[k])["column3"]
            out == cleaned_rows[k]["column3"]
        IN  c.t = "num" =>
                /\ c.v < 0 => out = [t |-> "num", v |-> 0 - c.v]
                /\ c.v > 1000 => out = [t |-> "num", v |-> 1000]

\* a row with column3 = -5 and a row with column3 = 5000 were both accepted,
\* as 5 and as 1000
C12_Witness ==
    /\ tpc = "cleaned"
    /\ Len(df) = 2 /\ Len(cleaned_rows) = 2
    /\ df[1]["column3"] = Num(-5) /\ cleaned_rows[1]["column3"] = Num(5)
    /\ df[2]["column3"] = Num(5000) /\ cleaned_rows[2]["column3"] = Num(1000)

\* a row that is valid but for the magnitude of its numeric column3
OtherwiseValid(row) ==
    /\ row["id"].t = "num" /\ row["id"].v > 0
    /\ row["column1"].t = "str" /\ row["column1"].v = 1
    /\ row["column2"].t \in {"absent", "null", "str"}
    /\ row["created_at"].t \in {"absent", "null"}
    /\ row["column3"].t = "num"

\* C13: whatever the magnitude of its column3, an otherwise valid row is
\* accepted, with a cleaned column3 within 0..1000.
C13_NeverRejectedForRange ==
    \A k \in 1..Len(row_log) :
        OtherwiseValid(InputRow(row_log[k])) =>
            /\ row_log[k].accepted
            /\ row_log[k].cleaner_out["column3"].v >= 0
            /\ row_log[k].cleaner_out["column3"].v <= 1000

\* C14: every row in cleaned_rows has an id, a positive integer.
C14_AcceptedHaveId ==
    \A k \in 1..Len(cleaned_rows) :
        /\ cleaned_rows[k]["id"].t = "num"
        /\ cleaned_rows[k]["id"].v > 0

\* ------------------------------- Part 3: properties of save_data_to_target

LoadReturned == lpc \in {"returned", "run_returned"}
BatchRecords == { transformed_data[k] : k \in 1..Len(transformed_data) }
\* id present and an integer, column1 present and a string
StructurallyValid(record) == record.id = "int" /\ record.column1 = "str"
ValidInBatch == { r \in BatchRecords : StructurallyValid(r) }
ErrorIndexes == [k \in 1..Len(load_errors) |-> load_errors[k].index]

\* C15: the session path (TRUNCATE, add_all, commits) is entered only after
\* the bulk write raised: a load whose bulk write succeeded clears nothing
\* and writes nothing through the session.
C15_FallbackOnlyAfterBulkFailure ==
    bulk = "ok" => session_ops = <<>> /\ written_orm = {}

\* C16: a load whose bulk write of a non-empty batch succeeded returns
\* success with every record counted as succeeded and none as failed.
C16_BulkSuccessIsTheOutcome ==
    (LoadReturned /\ bulk = "ok") =>
        /\ outcome.success
        /\ outcome.records_processed = Len(transformed_data)
        /\ outcome.records_with_errors = 0

\* C17: in every returned outcome with success true, records_processed plus
\* records_with_errors is the number of records of the batch.
C17_SuccessCountsAddUp ==
    /\ outcome.success =>
        outcome.records_processed + outcome.records_with_errors = Len(transformed_data)
    /\ load_result.success =>
        load_result.records_processed + load_result.records_with_errors
            = Len(transformed_data)

\* a successful load of a batch with both a kept and a failed record
C17_Witness ==
    /\ lpc = "returned"
    /\ outcome.success
    /\ outcome.records_processed = 2
    /\ outcome.records_with_errors = 1

\* C18: on the session path a record is written only if it is structurally
\* valid, and once the commit has succeeded every structurally valid record
\* is written; load_errors holds exactly the invalid records, each once and
\* under its own batch position; the outcome counts the valid records as
\* processed and the others as with errors.
C18_WrittenIffStructurallyValid ==
    /\ \A r \in written_orm : r \in BatchRecords /\ StructurallyValid(r)
    /\ (LoadReturned /\ outcome.success) => written_orm = ValidInBatch
    /\ lpc \in {"checked", "cleared", "returned", "run_returned"} /\ transformed_data # <<>> =>
        /\ \A k \in 1..Len(load_errors) :
            /\ load_errors[k].index \in 0..(Len(transformed_data) - 1)
            /\ load_errors[k].record = transformed_data[load_errors[k].index + 1]
            /\ ~StructurallyValid(load_errors[k].record)
            /\ \A j \in 1..Len(load_errors) : j < k => load_errors[j].index < load_errors[k].index
        /\ \A r \in BatchRecords \ ValidInBatch :
            /\ r \notin written_orm
            /\ \E k \in 1..Len(load_errors) : load_errors[k].index = r.n
    /\ (LoadReturned /\ transformed_data # <<>>) =>
        /\ outcome.records_processed = Cardinality(ValidInBatch)
        /\ outcome.records_with_errors = Len(transformed_data) - Cardinality(ValidInBatch)

\* the bulk write raised, the middle record of three lacks a string column1:
\* the two others are written and position 1 is in load_errors
C18_Witness ==
    /\ lpc = "returned"
    /\ bulk = "failed"
    /\ Len(transformed_data) = 3
    /\ transformed_data[2].id = "int" /\ transformed_data[2].column1 = "NoneType"
    /\ written_orm = {transformed_data[1], transformed_data[3]}
    /\ ErrorIndexes = <<1>>
    /\ outcome.success
    /\ outcome.records_processed = 2 /\ outcome.records_with_errors = 1

\* C19: when the session block fails, at the clear or at the write and
\* commit, save_data_to_target has returned (it left with no exception) a
\* dict whose success is false, and run() returns that dict.
C19_OrmFailureIsReturned ==
    failure.at # "none" =>
        /\ LoadReturned
        /\ "success" \in outcome.keys /\ ~outcome.success
        /\ lpc = "run_returned" => load_result = outcome

\* the clear was committed, the write then failed, and run() has returned
\* the failure dict
C19_Witness ==
    /\ lpc = "run_returned"
    /\ failure.at = "write"
    /\ session_ops = <<"TRUNCATE", "commit">>
    /\ ~load_result.success
    /\ "error" \in load_result.keys

\* the records that fail on their own: structurally invalid, or refused by
\* the destination when inserted
FailingRecords ==
    { r \in BatchRecords : ~StructurallyValid(r) \/ r.n \in dest_rejects }

\* C20: when the destination is reachable and only individual records fail,
\* the load returns success with a nonzero count of failed records and the
\* other records are written.
C20_RecordFailuresStillSucceed ==
    (/\ LoadReturned
     /\ failure.cause \notin {"destination", "KeyError"}
     /\ FailingRecords # {}) =>
        /\ outcome.success
        /\ outcome.records_with_errors > 0
        /\ BatchRecords \ FailingRecords \subseteq written_orm

\* ------------------------------------------------ further properties

\* C21: no defect of a record makes transform_data_with_pandas leave with
\* an exception: the pass never ends raised.
C21_RecordDefectsAreData ==
    tpc # "raised" /\ terr = NoError

\* C23: the clear and the write are one transaction: whenever the load has
\* returned and the TRUNCATE is in effect at the destination, the records
\* have been written with it.
C23_ClearAndWriteAtomic ==
    (LoadReturned /\ InList("TRUNCATE", session_ops)) => InList("add_all", session_ops)

\* the executor's progress, read off the position of run()
ExecState ==
    CASE pc = "idle" -> "Idle"
      [] pc = "raised" -> "Failed"
      [] pc = "returned" -> "Completed"
      [] pc = "loop" /\ idx > 3 -> "Completed"
      [] OTHER -> "Running" \o loop_phase(idx)
ExecStep(a, b) == ExecState = a /\ ExecState' = b

\* C24: a run moves Idle, RunningExtract, RunningTransform, RunningLoad,
\* Completed, one state at a time, or from a running state to Failed, and
\* to Failed only when the phase at hand is unregistered or its unit raised;
\* Completed and Failed are left only when the run is over; Completed is
\* entered only with Load having returned.
C24_ExecutorStateMachine ==
    [][/\ \/ ExecState' = ExecState
          \/ ExecStep("Idle", "RunningExtract")
          \/ ExecStep("RunningExtract", "RunningTransform")
          \/ ExecStep("RunningTransform", "RunningLoad")
          \/ ExecStep("RunningLoad", "Completed")
          \/ /\ ExecState \in {"RunningExtract", "RunningTransform", "RunningLoad"}
             /\ ExecState' = "Failed"
             /\ \/ ~is_registered(phases, loop_phase(idx))
                   /\ raised' = NotRegisteredError(loop_phase(idx))
                \/ /\ Len(calls') = Len(calls) + 1
                   /\ calls'[Len(calls')].exc # NoError
          \/ ExecState \in {"Completed", "Failed"} /\ ExecState' = "Idle"
       /\ (ExecState # "Completed" /\ ExecState' = "Completed") =>
            /\ Len(calls') = 3
            /\ calls'[3].phase = LOAD
            /\ calls'[3].exc = NoError
            /\ \A i \in 1..3 : calls'[i].phase = <<"Extract", "Transform", "Load">>[i]
      ]_vars

\* a run has gone through the three running states and is completed
C24_Witness ==
    /\ ExecState = "Completed"
    /\ pc = "returned"
    /\ Len(calls) = 3

AcceptedIndexes == { row_log[k].index : k \in { j \in 1..Len(row_log) : row_log[j].accepted } }
RejectedIndexes == { invalid_rows[k] : k \in 1..Len(invalid_rows) }

\* C25: the pass handles every row once and in order; cleaned_rows holds
\* exactly the rows that were not rejected, each once and in the order of
\* the input; a rejected row does not end the pass.
C25_AcceptedInOrder ==
    /\ Len(row_log) = pos
    /\ \A k \in 1..Len(row_log) : row_log[k].index = k - 1
    /\ AcceptedIndexes = (0..(pos - 1)) \ RejectedIndexes
    /\ Len(cleaned_rows) = Len(AcceptedLog)
    /\ \A k \in 1..Len(cleaned_rows) :
        /\ cleaned_rows[k]["id"] = InputRow(AcceptedLog[k])["id"]
        /\ cleaned_rows[k]["column1"] = InputRow(AcceptedLog[k])["column1"]
        /\ \A j \in 1..Len(cleaned_rows) :
            j < k => AcceptedLog[j].index < AcceptedLog[k].index
    /\ tpc = "cleaned" => pos = Len(df)

\* the first row was rejected and the second, handled after it, accepted
C25_Witness ==
    /\ tpc = "cleaned"
    /\ Len(df) = 2
    /\ invalid_rows = <<0>>
    /\ Len(cleaned_rows) = 1
    /\ cleaned_rows[1]["id"] = Num(2)
    /\ df[2]["id"] = Num(2)

\* C30: given an empty batch save_data_to_target writes nothing, by no
\* path, and returns a dict with success false and a reason.
C30_EmptyBatchNoWrite ==
    transformed_data = <<>> =>
        /\ bulk = "none"
        /\ session_ops = <<>>
        /\ written_bulk = {} /\ written_orm = {}
        /\ failure = NoFailure
        /\ lpc \in {"off", "called", "returned", "run_returned"}
        /\ LoadReturned =>
            /\ ~outcome.success
            /\ outcome.keys = {"success", "reason"}
            /\ outcome.text = "No data to save"

\* the load of an empty batch has returned and run() has handed it on
C30_Witness ==
    /\ transformed_data = <<>>
    /\ lpc = "run_returned"
    /\ ~load_result.success
    /\ "reason" \in load_result.keys

\* C26: run() leaves the registry as it found it, while it runs and once
\* it has returned or raised; a run that follows another on the same
\* registry invokes the same units for the same phases in the same order,
\* and starts at Extract, called with no input.
C26_RegistryReadOnly ==
    /\ pc \in {"loop", "returned", "raised"} =>
        /\ lastOp.op = "run"
        /\ phases = lastOp.before
    /\ (pc \in {"loop", "returned", "raised"} /\ prev_run.seen) =>
        \A i \in 1..Len(calls) :
            i <= Len(prev_run.units) =>
                /\ calls[i].phase = prev_run.units[i].phase
                /\ calls[i].unit = prev_run.units[i].unit
    /\ (pc \in {"loop", "returned", "raised"} /\ Len(calls) >= 1) =>
        /\ calls[1].phase = EXTRACT
        /\ calls[1].args = <<>>

\* a second run on the same registry has returned after a first one that
\* returned: the same three units once more
C26_Witness ==
    /\ pc = "returned"
    /\ prev_run.seen /\ prev_run.pc = "returned"
    /\ Len(calls) = 3 /\ Len(prev_run.units) = 3
    /\ calls[1].args = <<>>

\* C27: the run() of the root framework.py does what the run() of
\* src/src/framework.py does: Transform and Load are called with what
\* call_args makes of the preceding phase's return value, and run() returns
\* what run_result makes of Load's return value.
C27_RootRunEquivalent ==
    /\ \A i \in 2..Len(calls) : calls[i].args = call_args(calls[i - 1].ret)
    /\ pc = "returned" => result = run_result(calls[3].ret)

\* what validate_and_clean_row made of the row of df with label i
LogOf(i) == row_log[i + 1]

\* C28: every record of the frame handed to Load carries the values the
\* cleaning rules gave its row: column2 defaulted, and column3_transformed
\* twice the cleaned column3, within 0..2000.
C28_AcceptedCarryCleanedValues ==
    tpc = "returned" =>
        \A k \in 1..Len(tout) :
            LET cleaned == LogOf(tout[k].origin).cleaner_out
                rec == tout[k].row
            IN  /\ rec["column2"] = cleaned["column2"]
                /\ has(cleaned, "column3") =>
                    /\ rec["column3_transformed"] = [t |-> "num", v |-> 2 * cleaned["column3"].v]
                    /\ rec["column3_transformed"].v >= 0
                    /\ rec["column3_transformed"].v <= 2000

\* C29: with the removal configured, the frame returned is the validated
\* frame without exactly the records validate_transformed_data listed, and
\* the removal does not fail.
C29_RemovesExactlyInvalid ==
    (data_validation /\ error_indices # <<>>) =>
        /\ tpc # "raised"
        /\ tpc = "returned" =>
            /\ \A k \in 1..Len(pre_drop) :
                (k - 1) \notin SeqToSet(error_indices) =>
                    \E j \in 1..Len(tout) : tout[j].origin = pre_drop[k].origin
            /\ \A j \in 1..Len(tout) :
                \E k \in 1..Len(pre_drop) :
                    /\ (k - 1) \notin SeqToSet(error_indices)
                    /\ tout[j].origin = pre_drop[k].origin

\* C22: two validations of the same record by the same validator have the
\* same outcome, the same valid flag and the same errors, whatever the
\* time between them.
C22_ValidationIdempotent ==
    \A i, j \in 1..Len(verdicts) :
        verdicts[i].validator = verdicts[j].validator =>
            /\ verdicts[i].valid = verdicts[j].valid
            /\ verdicts[i].errors = verdicts[j].errors

\* C22, amended: the outcome of a validation depends on the record and, for
\* SourceRecord, on whether created_at is later than the time of the call.
\* Two validations by validate_transformed_row agree; two by SourceRecord
\* agree unless created_at lies after the first call and not after the
\* second, and then the first refuses the record for created_at and the
\* second reports the other errors only.
C22_IdempotentUpToClock ==
    \A i, j \in 1..Len(verdicts) :
        (i < j /\ verdicts[i].validator = verdicts[j].validator) =>
            LET c == vrecord["created_at"]
                same == /\ verdicts[i].valid = verdicts[j].valid
                        /\ verdicts[i].errors = verdicts[j].errors
            IN  IF verdicts[i].validator = "validate_transformed_row" THEN same
                ELSE IF c.t # "time" \/ c.v <= verdicts[i].at \/ c.v > verdicts[j].at
                THEN same
                ELSE /\ ~verdicts[i].valid
                     /\ "created_at" \in verdicts[i].errors
                     /\ verdicts[j].errors = verdicts[i].errors \ {"created_at"}
                     /\ verdicts[j].valid = (verdicts[j].errors = {})

\* a record with a timestamp was validated twice by SourceRecord, time
\* having passed in between, the timestamp not later than the first call
C22_Witness ==
    /\ Len(verdicts) = 2
    /\ verdicts[1].validator = "SourceRecord" /\ verdicts[2].validator = "SourceRecord"
    /\ vrecord["created_at"].t = "time"
    /\ vrecord["created_at"].v <= verdicts[1].at
    /\ verdicts[1].at < verdicts[2].at
    /\ verdicts[1].valid /\ verdicts[2].valid

====
